---- MODULE Spec2Model ----
(* Model of backup-and-restore.py: the single-shot / chunked upload of       *)
(* backup(), the batch and single-file callers, revision selection and the   *)
(* restore of a revision to a local file.  Sizes are in bytes.               *)
EXTENDS Integers, Sequences, FiniteSets, TLC

----------------------------------------------------------------------------
(* Bounds *)

MaxFiles == 2
ExtraChunks == 1
MaxRevs == 3
MaxTime == 2
MaxRetries == 2

----------------------------------------------------------------------------
(* Program constants *)

MiB == 1024 * 1024
MAX_FILE_SIZE == 150
CHUNK_SIZE == 8 * 1024 * 1024

NoCursor == 0 - 1
None == 0

----------------------------------------------------------------------------
(* Inputs *)

\* first chunk count whose size is above the threshold
MinChunks == ((MAX_FILE_SIZE * MiB) \div CHUNK_SIZE) + 1

Sizes ==
    {0, 1, 10 * MiB, MAX_FILE_SIZE * MiB - 1, MAX_FILE_SIZE * MiB, MAX_FILE_SIZE * MiB + 1}
    \cup {k * CHUNK_SIZE + d : k \in MinChunks..(MinChunks + ExtraChunks),
                               d \in {0 - 1, 0, 1, 4 * MiB}}

\* what a remote call can do: succeed, raise ApiError (insufficient space, with
\* a user message, without one), or raise another exception (network, HTTP)
Outcomes == {"ok", "insufficient_space", "user_message", "api_error", "exception"}

IsApiError(r) == r \in {"insufficient_space", "user_message", "api_error"}

Min(a, b) == IF a < b THEN a ELSE b

Last(s) == s[Len(s)]

----------------------------------------------------------------------------
(* State *)

VARIABLES
    cmd,          \* the click command that runs
    pc,           \* position of the process
    nfiles,       \* number of entries of file_paths
    idx,          \* position of the for loop of backup_files
    file_size,    \* os.path.getsize of the file in transfer
    pos,          \* f.tell() of the file in transfer
    cursor,       \* cursor.offset, NoCursor before the cursor exists
    acked,        \* bytes the remote store acknowledged in the upload session
    xfer,         \* NONE, START, APPENDING, DONE, FAILED
    calls,        \* remote calls of the transfer, in order
    result,       \* what backup()/restore() handed to its caller
    msgs,         \* messages shown to the user
    verbose,      \* the --verbose flag of restore_file
    revisions,    \* files_list_revisions(...).entries, in listing order
    sorted_revisions,
    selected_index, \* the last index entered at the revision prompt
    retries,      \* "Invalid selection" answers so far
    revision,     \* the revision to restore, None when there is none
    fs,           \* content of each local path
    fs0,          \* fs when restore() was entered
    local_file,   \* the path restore() writes to
    answer,       \* what the user typed at the overwrite prompt
    prompted,     \* the overwrite prompt was shown
    rcalls        \* remote calls of restore(), in order

xferVars == <<file_size, pos, cursor, acked, xfer, calls>>

backupVars == <<nfiles, idx, xferVars>>

selectVars == <<revisions, sorted_revisions, selected_index, retries>>

localVars == <<fs, fs0, local_file, answer, prompted, rcalls>>

restoreVars == <<verbose, selectVars, revision, localVars>>

vars == <<cmd, pc, backupVars, result, msgs, restoreVars>>

Call(op, n, off, mode, r) ==
    [op |-> op, bytes |-> n, offset |-> off, mode |-> mode, res |-> r]

----------------------------------------------------------------------------
(* backup: threshold and chunk arithmetic *)

\* the threshold test written with >=
UseChunkedGe(s) == s >= MAX_FILE_SIZE * MiB

\* file_size / (1024 * 1024) > MAX_FILE_SIZE; the float quotient by a power
\* of two is exact, so the comparison is the one on bytes
UseChunked(s) == s > MAX_FILE_SIZE * MiB

\* f.read(CHUNK_SIZE) at position p of a file of s bytes
ReadLen(p, s) == Min(CHUNK_SIZE, s - p)

\* the last-chunk test written with <
IsLastChunkLt(p, s) == (s - p) < CHUNK_SIZE

\* (file_size - f.tell()) <= CHUNK_SIZE
IsLastChunk(p, s) == (s - p) <= CHUNK_SIZE

\* the cursor left where it was before the append
CursorStale(p) == p - CHUNK_SIZE

\* cursor.offset = f.tell() after an append
CursorAfterAppend(p) == p

\* the except clause of backup: every ApiError ends in sys.exit
BackupErrorPc(r) == IF IsApiError(r) THEN "exited" ELSE "crashed"

BackupErrorMsg(r) ==
    CASE r = "insufficient_space" -> <<"ERROR: Cannot back up; insufficient space.">>
      [] r = "user_message" -> <<"user_message_text">>
      [] r = "api_error" -> <<"err">>
      [] OTHER -> <<>>

\* an except clause that goes round the loop again
ChunkErrorRetry(r) ==
    CASE r = "insufficient_space" -> "exited"
      [] r \in {"user_message", "api_error"} -> "loop"
      [] OTHER -> "crashed"

\* the except clause of upload_large_files: only insufficient space exits
ChunkErrorPc(r) ==
    CASE r = "insufficient_space" -> "exited"
      [] r \in {"user_message", "api_error"} -> "returned"
      [] OTHER -> "crashed"

ChunkErrorMsg(r) ==
    CASE r = "insufficient_space" -> <<"ERROR: Cannot back up; insufficient space.">>
      [] r = "user_message" -> <<"user_message_text">>
      [] r = "api_error" -> <<"API error: err">>
      [] OTHER -> <<>>

\* what the caller of backup() gets: a normal return carries no error
ResultOf(p, r) ==
    CASE p = "returned" -> "returned"
      [] p = "exited" -> "SystemExit"
      [] OTHER -> r

----------------------------------------------------------------------------
(* restore: revisions, answers and local paths *)

\* a RevisionDescriptor; rev is the position in the listing the store returned
Rev(i, t) == [rev |-> i, server_modified |-> t]

Listings ==
    UNION {{[i \in 1..n |-> Rev(i, f[i])] : f \in [1..n -> 1..MaxTime]} : n \in 0..MaxRevs}

\* insertion in front of the elements with an equal key
InsertBeforeEqual(s, x) ==
    LET k == Cardinality({i \in 1..Len(s) : s[i].server_modified < x.server_modified})
    IN SubSeq(s, 1, k) \o <<x>> \o SubSeq(s, k + 1, Len(s))

\* sorted(): insertion behind every element whose key is not greater (stable)
Insert(s, x) ==
    LET k == Cardinality({i \in 1..Len(s) : s[i].server_modified <= x.server_modified})
    IN SubSeq(s, 1, k) \o <<x>> \o SubSeq(s, k + 1, Len(s))

RECURSIVE SortedFrom(_, _)
SortedFrom(done, rest) ==
    IF rest = <<>> THEN done ELSE SortedFrom(Insert(done, Head(rest)), Tail(rest))

\* sorted(revisions, key=lambda revision: revision.server_modified)
Sorted(s) == SortedFrom(<<>>, s)

\* 1 <= selected_index <= len(revisions)
InRange(i, n) == 1 <= i /\ i <= n

\* a Python subscript s[k]: defined for -len <= k < len, IndexError otherwise
PyIndexOk(s, k) == (0 - Len(s)) <= k /\ k < Len(s)

PyIndex(s, k) == IF k >= 0 THEN s[k + 1] ELSE s[Len(s) + k + 1]

Indices == (0 - 1)..(MaxRevs + 1)

\* what the user can type at a y/n prompt, as characters
Answers ==
    {<<>>, <<"y">>, <<" ", "Y", " ">>, <<"n">>, <<"y", "e", "s">>, <<"y", " ", "y">>}

\* click.prompt(..., default="n"): an empty line gives the default
PromptDefault(a) == IF a = <<>> THEN <<"n">> ELSE a

RECURSIVE LStrip(_)
LStrip(a) == IF a # <<>> /\ Head(a) = " " THEN LStrip(Tail(a)) ELSE a

RECURSIVE RStrip(_)
RStrip(a) == IF a # <<>> /\ a[Len(a)] = " " THEN RStrip(SubSeq(a, 1, Len(a) - 1)) ELSE a

\* str.strip()
Strip(a) == RStrip(LStrip(a))

LowerChar(c) ==
    CASE c = "Y" -> "y"
      [] c = "N" -> "n"
      [] OTHER -> c

\* str.lower()
Lower(a) == [i \in 1..Len(a) |-> LowerChar(a[i])]

\* click.prompt(...).strip().lower()
Normalize(a) == Lower(Strip(PromptDefault(a)))

\* the comparison without .lower()
NotYesCaseSensitive(a) == Strip(PromptDefault(a)) # <<"y">>

\* overwrite != "y", confirm != "y"
NotYes(a) == Normalize(a) # <<"y">>

\* local paths: the original (rev = None) and f"{local_file}_rev_{rev}"
Path(r) == [base |-> "local_file", rev |-> r]

Paths == {Path(r) : r \in 0..MaxRevs}

AltPath(p, r) == [p EXCEPT !.rev = r]

\* the except clause of restore_file
RestoreErrorMsg(r) ==
    CASE r = "insufficient_space" -> <<"ERROR: Cannot restore; insufficient space.">>
      [] r = "user_message" -> <<"user_message_text">>
      [] r = "api_error" -> <<"Error restoring file: err">>
      [] OTHER -> <<>>

\* an ApiError of restore() is caught by restore_file, anything else is not
RestoreErrorPc(r) == IF IsApiError(r) THEN "done" ELSE "crashed"

\* a failed files_restore that is caught inside restore() and passed over
RestoreErrorIgnored(r) == IF IsApiError(r) THEN "exists_check" ELSE "crashed"

\* files_restore raises out of restore(), before the lines that follow it
AfterRestoreError(r) == RestoreErrorPc(r)

RCall(op, r) == [op |-> op, res |-> r]

----------------------------------------------------------------------------

Init ==
    /\ cmd = "none"
    /\ pc = "idle"
    /\ nfiles = 0
    /\ idx = 0
    /\ file_size = 0
    /\ pos = 0
    /\ cursor = NoCursor
    /\ acked = 0
    /\ xfer = "NONE"
    /\ calls = <<>>
    /\ result = "none"
    /\ msgs = <<>>
    /\ verbose = FALSE
    /\ revisions = <<>>
    /\ sorted_revisions = <<>>
    /\ selected_index = None
    /\ retries = 0
    /\ revision = None
    /\ fs = [p \in Paths |-> "absent"]
    /\ fs0 = [p \in Paths |-> "absent"]
    /\ local_file = Path(None)
    /\ answer = <<>>
    /\ prompted = FALSE
    /\ rcalls = <<>>

\* backup_file: one file, click has checked that it exists
BackupFileCmd ==
    /\ pc = "idle"
    /\ cmd' = "backup_file"
    /\ nfiles' = 1
    /\ idx' = 1
    /\ pc' = "backup"
    /\ UNCHANGED <<restoreVars, xferVars, result, msgs>>

\* backup_files: load_file_paths, check_files_exist, then the for loop
BackupFilesCmd ==
    /\ pc = "idle"
    /\ cmd' = "backup_files"
    /\ \E n \in 0..MaxFiles, missing \in BOOLEAN :
         /\ nfiles' = n
         /\ pc' = IF missing /\ n > 0 THEN "crashed" ELSE "batch_loop"
         /\ result' = IF missing /\ n > 0 THEN "FileNotFoundError" ELSE result
    /\ idx' = 0
    /\ UNCHANGED <<restoreVars, xferVars, msgs>>

\* for filename, full_path in file_paths.items(): ... then the final message
BatchLoop ==
    /\ pc = "batch_loop"
    /\ IF idx < nfiles
         THEN /\ idx' = idx + 1
              /\ pc' = "backup"
              /\ msgs' = msgs
         ELSE /\ idx' = idx
              /\ pc' = "done"
              /\ msgs' = Append(msgs, "All files backed up successfully.")
    /\ UNCHANGED <<restoreVars, cmd, nfiles, xferVars, result>>

\* backup(): getsize and the threshold test
Backup ==
    /\ pc = "backup"
    /\ \E s \in Sizes :
         /\ file_size' = s
         /\ pc' = IF UseChunked(s) THEN "session_start" ELSE "put"
    /\ pos' = 0
    /\ cursor' = NoCursor
    /\ acked' = 0
    /\ xfer' = "START"
    /\ calls' = <<>>
    /\ result' = "none"
    /\ UNCHANGED <<restoreVars, cmd, nfiles, idx, msgs>>

\* single-shot path: files_upload(f.read(), path, overwrite) and its except
Put ==
    /\ pc = "put"
    /\ \E r \in Outcomes :
         /\ calls' = Append(calls, Call("put", file_size - pos, NoCursor, "overwrite", r))
         /\ pos' = file_size
         /\ IF r = "ok"
              THEN /\ xfer' = "DONE"
                   /\ pc' = "returned"
                   /\ result' = "returned"
                   /\ msgs' = msgs
              ELSE /\ xfer' = "FAILED"
                   /\ pc' = BackupErrorPc(r)
                   /\ result' = ResultOf(BackupErrorPc(r), r)
                   /\ msgs' = msgs \o BackupErrorMsg(r)
    /\ UNCHANGED <<restoreVars, cmd, nfiles, idx, file_size, cursor, acked>>

\* chunked path: files_upload_session_start(f.read(CHUNK_SIZE)) and the cursor
SessionStart ==
    /\ pc = "session_start"
    /\ \E r \in Outcomes :
         LET n == ReadLen(pos, file_size) IN
         /\ calls' = Append(calls, Call("sessionStart", n, NoCursor, "none", r))
         /\ pos' = pos + n
         /\ IF r = "ok"
              THEN /\ acked' = n
                   /\ cursor' = pos + n
                   /\ xfer' = "APPENDING"
                   /\ pc' = "loop"
                   /\ result' = result
                   /\ msgs' = msgs
              ELSE /\ acked' = acked
                   /\ cursor' = cursor
                   /\ xfer' = "FAILED"
                   /\ pc' = ChunkErrorPc(r)
                   /\ result' = ResultOf(ChunkErrorPc(r), r)
                   /\ msgs' = msgs \o ChunkErrorMsg(r)
    /\ UNCHANGED <<restoreVars, cmd, nfiles, idx, file_size>>

\* one pass of while f.tell() < file_size: finish and break, or append
UploadLoop ==
    /\ pc = "loop"
    /\ IF pos < file_size
         THEN \E r \in Outcomes :
                LET n == ReadLen(pos, file_size)
                    last == IsLastChunk(pos, file_size)
                    op == IF last THEN "sessionFinish" ELSE "sessionAppend"
                IN
                /\ calls' = Append(calls, Call(op, n, cursor, "none", r))
                /\ pos' = pos + n
                /\ IF r = "ok"
                     THEN /\ acked' = acked + n
                          /\ cursor' = IF last THEN cursor ELSE CursorAfterAppend(pos + n)
                          /\ xfer' = IF last THEN "DONE" ELSE xfer
                          /\ pc' = IF last THEN "returned" ELSE "loop"
                          /\ result' = IF last THEN "returned" ELSE result
                          /\ msgs' = msgs
                     ELSE /\ acked' = acked
                          /\ cursor' = cursor
                          /\ xfer' = "FAILED"
                          /\ pc' = ChunkErrorPc(r)
                          /\ result' = ResultOf(ChunkErrorPc(r), r)
                          /\ msgs' = msgs \o ChunkErrorMsg(r)
         ELSE /\ pc' = "returned"
              /\ result' = "returned"
              /\ UNCHANGED <<calls, pos, acked, cursor, xfer, msgs>>
    /\ UNCHANGED <<restoreVars, cmd, nfiles, idx, file_size>>

\* backup() returned to its caller
BackupReturned ==
    /\ pc = "returned"
    /\ IF cmd = "backup_file"
         THEN /\ msgs' = Append(msgs, "File backed up successfully.")
              /\ pc' = "done"
         ELSE /\ msgs' = msgs
              /\ pc' = "batch_loop"
    /\ UNCHANGED <<restoreVars, cmd, nfiles, idx, xferVars, result>>

----------------------------------------------------------------------------
(* restore_file *)

\* restore_file: click has checked that file_path exists
RestoreFileCmd ==
    /\ pc = "idle"
    /\ cmd' = "restore_file"
    /\ \E v \in BOOLEAN, r \in 0..MaxRevs, alt \in {"absent", "old"} :
         LET f == [p \in Paths |-> IF p = Path(None) THEN "old" ELSE alt] IN
         /\ verbose' = v
         /\ revision' = r
         /\ fs' = f
         /\ pc' = IF r = None THEN "list_revisions" ELSE "restore"
    /\ UNCHANGED <<backupVars, result, msgs, selectVars, fs0, local_file, answer,
                   prompted, rcalls>>

\* the local file is removed by someone else while restore_file waits for the
\* store or the user, so that os.path.exists in restore() sees no file
LocalFileRemoved ==
    /\ pc \in {"list_revisions", "select", "confirm", "restore"}
    /\ fs[Path(None)] # "absent"
    /\ fs' = [fs EXCEPT ![Path(None)] = "absent"]
    /\ UNCHANGED <<cmd, pc, backupVars, result, msgs, verbose, selectVars, revision,
                   fs0, local_file, answer, prompted, rcalls>>

\* help_select_revision up to the prompt: list, the empty case, sort
ListRevisions ==
    /\ pc = "list_revisions"
    /\ \E r \in Outcomes :
         IF r = "ok"
           THEN \E l \in Listings :
                  /\ revisions' = l
                  /\ IF l = <<>>
                       THEN /\ sorted_revisions' = sorted_revisions
                            /\ msgs' = msgs \o <<"No revisions found.",
                                                 "Unexpected error with file revision">>
                            /\ pc' = "done"
                       ELSE /\ sorted_revisions' = Sorted(l)
                            /\ msgs' = msgs
                            /\ pc' = "select"
                  /\ result' = result
           ELSE /\ pc' = "crashed"
                /\ result' = r
                /\ UNCHANGED <<revisions, sorted_revisions, msgs>>
    /\ UNCHANGED <<cmd, backupVars, verbose, selected_index, retries, revision, localVars>>

\* one pass of the while True of help_select_revision, and what restore_file
\* does with the value returned
SelectPrompt ==
    /\ pc = "select"
    /\ \E i \in Indices :
         /\ selected_index' = i
         /\ IF InRange(i, Len(revisions))
              THEN IF PyIndexOk(sorted_revisions, i - 1)
                     THEN /\ revision' = PyIndex(sorted_revisions, i - 1).rev
                          /\ pc' = IF verbose THEN "confirm" ELSE "restore"
                          /\ UNCHANGED <<retries, msgs, result>>
                     ELSE /\ pc' = "crashed"
                          /\ result' = "IndexError"
                          /\ UNCHANGED <<revision, retries, msgs>>
              ELSE IF i = 0
                     THEN /\ msgs' = Append(msgs, "Unexpected error with file revision")
                          /\ pc' = "done"
                          /\ UNCHANGED <<revision, retries, result>>
                     ELSE /\ retries < MaxRetries
                          /\ retries' = retries + 1
                          /\ pc' = "select"
                          /\ UNCHANGED <<revision, msgs, result>>
    /\ UNCHANGED <<cmd, backupVars, verbose, revisions, sorted_revisions, localVars>>

\* verbose mode: confirm the selected revision
Confirm ==
    /\ pc = "confirm"
    /\ \E a \in Answers :
         pc' = IF NotYes(a) THEN "done" ELSE "restore"
    /\ UNCHANGED <<cmd, backupVars, result, msgs, restoreVars>>

\* restore(): dbx.files_restore(backup_path, rev)
Restore ==
    /\ pc = "restore"
    /\ fs0' = fs
    /\ \E r \in Outcomes :
         /\ rcalls' = Append(rcalls, RCall("restoreToRevision", r))
         /\ IF r = "ok"
              THEN /\ pc' = "exists_check"
                   /\ UNCHANGED <<result, msgs>>
              ELSE /\ pc' = AfterRestoreError(r)
                   /\ result' = r
                   /\ msgs' = msgs \o RestoreErrorMsg(r)
    /\ UNCHANGED <<cmd, backupVars, verbose, selectVars, revision, fs, local_file,
                   answer, prompted>>

\* restore(): os.path.exists, the overwrite prompt and the renamed target
ExistsCheck ==
    /\ pc = "exists_check"
    /\ IF fs[local_file] # "absent"
         THEN \E a \in Answers :
                /\ answer' = a
                /\ prompted' = TRUE
                /\ local_file' = IF NotYes(a) THEN AltPath(local_file, revision)
                                 ELSE local_file
         ELSE UNCHANGED <<answer, prompted, local_file>>
    /\ pc' = "open"
    /\ UNCHANGED <<cmd, backupVars, result, msgs, verbose, selectVars, revision,
                   fs, fs0, rcalls>>

\* restore(): open(local_file, "wb") creates or truncates the target
OpenLocal ==
    /\ pc = "open"
    /\ fs' = [fs EXCEPT ![local_file] = "empty"]
    /\ pc' = "files_download"
    /\ UNCHANGED <<cmd, backupVars, result, msgs, verbose, selectVars, revision,
                   fs0, local_file, answer, prompted, rcalls>>

\* restore(): files_download, f.write(res.content), and the messages of
\* restore and restore_file
Download ==
    /\ pc = "files_download"
    /\ \E r \in Outcomes :
         /\ rcalls' = Append(rcalls, RCall("download", r))
         /\ IF r = "ok"
              THEN /\ fs' = [fs EXCEPT ![local_file] = "new"]
                   /\ result' = "returned"
                   /\ msgs' = msgs \o (IF verbose THEN <<"Restored">> ELSE <<>>)
                                   \o <<"File restored successfully.">>
                   /\ pc' = "done"
              ELSE /\ fs' = fs
                   /\ result' = r
                   /\ msgs' = msgs \o RestoreErrorMsg(r)
                   /\ pc' = RestoreErrorPc(r)
    /\ UNCHANGED <<cmd, backupVars, verbose, selectVars, revision, fs0, local_file,
                   answer, prompted>>

----------------------------------------------------------------------------

Next ==
    \/ BackupFileCmd
    \/ BackupFilesCmd
    \/ BatchLoop
    \/ Backup
    \/ Put
    \/ SessionStart
    \/ UploadLoop
    \/ BackupReturned
    \/ RestoreFileCmd
    \/ LocalFileRemoved
    \/ ListRevisions
    \/ SelectPrompt
    \/ Confirm
    \/ Restore
    \/ ExistsCheck
    \/ OpenLocal
    \/ Download

Spec == Init /\ [][Next]_vars

----------------------------------------------------------------------------
(* Properties *)

Range(s) == {s[i] : i \in 1..Len(s)}

RECURSIVE SumBytes(_)
SumBytes(s) == IF s = <<>> THEN 0 ELSE Head(s).bytes + SumBytes(Tail(s))

ThresholdBytes == 150 * 1048576

ChunkBytes == 8 * 1048576

SessionOps == {"sessionStart", "sessionAppend", "sessionFinish"}

TransferOver == xfer \in {"DONE", "FAILED"}

AllOk(s) == \A i \in 1..Len(s) : s[i].res = "ok"

\* C1: a file of at most 150 MiB (0 and exactly 150 MiB included) is uploaded
\* with exactly one put call that carries the whole content in overwrite mode
\* and with no session call; a larger file is uploaded with session calls only
\* and no put call.
C1_ThresholdPolicy ==
    /\ file_size <= ThresholdBytes =>
         /\ \A i \in 1..Len(calls) : calls[i].op = "put"
         /\ TransferOver =>
              /\ Len(calls) = 1
              /\ calls[1].bytes = file_size
              /\ calls[1].mode = "overwrite"
    /\ file_size > ThresholdBytes =>
         /\ \A i \in 1..Len(calls) : calls[i].op \in SessionOps
         /\ TransferOver => Len(calls) >= 1

C1_Witness ==
    /\ xfer = "DONE"
    /\ file_size = ThresholdBytes
    /\ calls = <<Call("put", ThresholdBytes, NoCursor, "overwrite", "ok")>>

\* C2, as stated: the bytes of an error-free chunked upload sum to the file
\* size, and in every state the cursor offset equals the bytes acknowledged by
\* the store, also after the finish call, and never exceeds the file size.
C2_CursorAlwaysAcked ==
    /\ (xfer = "DONE" /\ file_size > ThresholdBytes) => SumBytes(calls) = file_size
    /\ cursor # NoCursor => (cursor = acked /\ cursor <= file_size)

\* C2, amended: the bytes of an error-free chunked upload (one sessionStart,
\* the appends, the finish) sum to the file size; the cursor offset equals the
\* bytes acknowledged in every state up to the finish call and never exceeds the
\* file size; the finish call does not advance the cursor, which stays at the
\* file size minus the bytes the finish carried while the store holds them all.
C2_CursorUntilFinish ==
    /\ (xfer = "DONE" /\ file_size > ThresholdBytes) =>
         /\ SumBytes(calls) = file_size
         /\ Cardinality({i \in 1..Len(calls) : calls[i].op = "sessionStart"}) = 1
         /\ acked = file_size
         /\ cursor = file_size - Last(calls).bytes
    /\ cursor # NoCursor =>
         /\ cursor <= file_size
         /\ xfer # "DONE" => cursor = acked
    /\ (file_size > ThresholdBytes /\ AllOk(calls)) => acked = SumBytes(calls)

C2_Witness ==
    /\ xfer = "DONE"
    /\ file_size > ThresholdBytes
    /\ Len(calls) > 2
    /\ acked = file_size
    /\ cursor = file_size - Last(calls).bytes

\* C3: an error-free chunked upload issues one sessionStart first, then
\* sessionAppend calls of one full chunk, then one sessionFinish as its last
\* call, carrying between 1 byte and one full chunk, also when the size is a
\* multiple of the chunk size; a call is issued only when the one before it was
\* acknowledged and carries the offset acknowledged so far; nothing follows
\* the finish.
C3_CallOrder ==
    file_size > ThresholdBytes =>
      /\ \A i \in 1..Len(calls) :
           /\ (calls[i].op = "sessionStart") <=> (i = 1)
           /\ i < Len(calls) => (calls[i].res = "ok" /\ calls[i].op # "sessionFinish")
           /\ i > 1 => calls[i].offset = SumBytes(SubSeq(calls, 1, i - 1))
           /\ calls[i].op = "sessionFinish" =>
                (calls[i].bytes >= 1 /\ calls[i].bytes <= ChunkBytes)
           /\ calls[i].op # "sessionFinish" => calls[i].bytes = ChunkBytes
      /\ (pc \notin {"session_start", "loop"} /\ xfer # "NONE" /\ AllOk(calls)) =>
           /\ Len(calls) = (file_size + ChunkBytes - 1) \div ChunkBytes
           /\ Last(calls).op = "sessionFinish"
           /\ Last(calls).bytes = file_size - (Len(calls) - 1) * ChunkBytes

C3_Witness ==
    /\ xfer = "DONE"
    /\ file_size > ThresholdBytes
    /\ file_size % ChunkBytes = 0
    /\ Len(calls) = file_size \div ChunkBytes
    /\ Last(calls).op = "sessionFinish"
    /\ Last(calls).bytes = ChunkBytes
    /\ calls[Len(calls) - 1].op = "sessionAppend"

\* C4: when a remote call of an upload fails the transfer is FAILED and no
\* further remote call is issued for it (the failed call stays the last one, no
\* position that issues a call is entered again); on insufficient space the
\* process stops at once.
C4_NoCallAfterFailure ==
    /\ \A i \in 1..Len(calls) : i < Len(calls) => calls[i].res = "ok"
    /\ (calls # <<>> /\ Last(calls).res # "ok") =>
         /\ xfer = "FAILED"
         /\ pc \notin {"put", "session_start", "loop"}
         /\ Last(calls).res = "insufficient_space" => pc = "exited"

C4_Witness ==
    /\ xfer = "FAILED"
    /\ Len(calls) > 2
    /\ Last(calls).op = "sessionAppend"
    /\ Last(calls).res = "user_message"
    /\ pc = "batch_loop"

\* C5: an upload that met a remote error is not passed over in silence: no
\* "backed up successfully" message is shown for a file unless its put call
\* or its sessionFinish call was acknowledged.
C5_FailureReported ==
    ("File backed up successfully." \in Range(msgs)
       \/ ("All files backed up successfully." \in Range(msgs) /\ nfiles > 0)) =>
      /\ xfer = "DONE"
      /\ Last(calls).op \in {"put", "sessionFinish"}
      /\ Last(calls).res = "ok"

\* C6: upload and restore never terminate the process; every remote error
\* comes back to the caller as an error that tells insufficient space from the
\* other remote errors.
C6_NeverTerminates ==
    /\ pc # "exited"
    /\ ((calls # <<>> /\ Last(calls).res # "ok") \/ (rcalls # <<>> /\ Last(rcalls).res # "ok")) =>
         result \in (Outcomes \ {"ok"})

\* position (1-based) of the listing entry j in the order ascending by
\* server_modified, equal times in listing order
Rank(l, j) ==
    1 + Cardinality({i \in 1..Len(l) :
          \/ l[i].server_modified < l[j].server_modified
          \/ (l[i].server_modified = l[j].server_modified /\ i < j)})

\* C7: with at least one revision listed, an entered index in [1, len] returns
\* the revision at that position of the list ordered ascending by modification
\* time (equal times in listing order); 0 returns none and nothing is restored;
\* any other index returns no revision, raises nothing and leads to the prompt
\* again, so the selection ends only on 0 or an index in range.
C7_SelectRevision ==
    (cmd = "restore_file" /\ revisions # <<>>) =>
      /\ result # "IndexError"
      /\ pc = "select" =>
           /\ revision = None
           /\ retries > 0 => selected_index \notin 0..Len(revisions)
      /\ pc # "select" =>
           /\ selected_index \in 0..Len(revisions)
           /\ selected_index = 0 => (revision = None /\ pc = "done" /\ rcalls = <<>>)
           /\ selected_index >= 1 =>
                \E j \in 1..Len(revisions) :
                  /\ revision = revisions[j].rev
                  /\ Rank(revisions, j) = selected_index

C7_Witness ==
    /\ cmd = "restore_file"
    /\ Len(revisions) >= 2
    /\ retries > 0
    /\ pc = "restore"
    /\ selected_index = Len(revisions)
    /\ revision # selected_index
    /\ \E i, j \in 1..Len(revisions) :
         i # j /\ revisions[i].server_modified = revisions[j].server_modified

\* the answer, trimmed and lower-cased, is "y"
SaysYes(a) ==
    \E i \in 1..Len(a) :
      /\ a[i] \in {"y", "Y"}
      /\ \A j \in 1..Len(a) : j # i => a[j] = " "

TargetResolved ==
    /\ cmd = "restore_file"
    /\ \/ pc \in {"open", "files_download"}
       \/ \E i \in 1..Len(rcalls) : rcalls[i].op = "download"

\* C8: when the local path exists and the user declines the overwrite (the
\* answer is not "y" once trimmed and lower-cased) the download goes to
\* <original>_rev_<revision> and the original file keeps its content whatever
\* the download does; when the path does not exist or the user accepts, the
\* download goes to the original path.
C8_DeclinedOverwrite ==
    TargetResolved =>
      LET original == [base |-> "local_file", rev |-> 0]
          existed == fs0[original] # "absent"
          declined == existed /\ ~SaysYes(answer)
      IN /\ prompted <=> existed
         /\ declined =>
              /\ local_file = [base |-> "local_file", rev |-> revision]
              /\ local_file # original
              /\ fs[original] = fs0[original]
         /\ ~declined => local_file = original

C8_Witness ==
    /\ TargetResolved
    /\ prompted
    /\ ~SaysYes(answer)
    /\ answer # <<>>
    /\ local_file.rev = revision
    /\ revision # None
    /\ Len(rcalls) = 2
    /\ Last(rcalls).res = "api_error"
    /\ fs[Path(None)] = "old"

\* C9: restoreToRevision is the first remote call of restore and the download
\* comes only after it succeeded; when it fails there is no download, no
\* overwrite prompt, no change to a local file and no success message, and
\* insufficient space is reported as such.
C9_RestoreBeforeDownload ==
    rcalls # <<>> =>
      /\ rcalls[1].op = "restoreToRevision"
      /\ \A i \in 1..Len(rcalls) :
           rcalls[i].op = "download" => (i = 2 /\ rcalls[1].res = "ok")
      /\ rcalls[1].res # "ok" =>
           /\ Len(rcalls) = 1
           /\ ~prompted
           /\ fs = fs0
           /\ local_file = [base |-> "local_file", rev |-> 0]
           /\ pc \in {"done", "crashed"}
           /\ result = rcalls[1].res
           /\ "File restored successfully." \notin Range(msgs)
           /\ "Restored" \notin Range(msgs)
           /\ rcalls[1].res = "insufficient_space" =>
                "ERROR: Cannot restore; insufficient space." \in Range(msgs)

C9_Witness ==
    /\ rcalls = <<RCall("restoreToRevision", "insufficient_space")>>
    /\ pc = "done"
    /\ fs0[Path(None)] = "old"
    /\ "ERROR: Cannot restore; insufficient space." \in Range(msgs)

\* C10: when restore is over, either it reported success and the resolved path
\* holds the complete remote content, or it reported no success and the
\* resolved path is as it was before the call (absent or with its previous
\* content), never empty or partial.
C10_AtomicDownload ==
    (cmd = "restore_file" /\ rcalls # <<>> /\ pc \in {"done", "crashed"}) =>
      \/ /\ "File restored successfully." \in Range(msgs)
         /\ fs[local_file] = "new"
      \/ /\ "File restored successfully." \notin Range(msgs)
         /\ fs[local_file] = fs0[local_file]

====
